---- MODULE Spec2Model ----
(***************************************************************************)
(* Model of webpage_monitor.py: the region detector find_differences, the  *)
(* overlay renderer draw_differences and the monitor loop                  *)
(* monitor_url_for_changes, with the browser, the file system and the      *)
(* viewer process as the environment.                                      *)
(***************************************************************************)
EXTENDS Integers, Sequences, FiniteSets, TLC

\* ---------------------------------------------------------------- bounds
\* Size of the images handed to find_differences when it is checked alone.
W == 3
H == 3
\* Size of the screenshots the browser returns to the monitor loop.
CapW == 2
CapH == 2

\* ------------------------------------------------------------- constants
\* draw_differences: "Add 5 pixel padding to the areas".
Padding == 5
\* Fixed-point BGR -> gray weights of cv2.COLOR_BGR2GRAY on 8-bit images.
B2Y == 1868
G2Y == 9617
R2Y == 4899
GrayShift == 16384

\* Python's None for an exception slot; NoArea for the area argument, which
\* "if area:" treats like the empty tuple; NoValue for everything else.
None == "None"
NoArea == <<>>
NoValue == [none |-> TRUE]

Max(a, b) == IF a > b THEN a ELSE b
Min(a, b) == IF a < b THEN a ELSE b
Abs(a) == IF a < 0 THEN 0 - a ELSE a

\* ----------------------------------------------------------------- images
\* A pixel is a <<b, g, r>> triple, an image a record [w, h, px] with px a
\* function of <<x, y>>, 0 <= x < w, 0 <= y < h.
Black == <<0, 0, 0>>
White == <<255, 255, 255>>
Blue == <<255, 0, 0>>
Palette == {Black, White}

Coords(w, h) == (0 .. (w - 1)) \X (0 .. (h - 1))

Images(w, h) == {[w |-> w, h |-> h, px |-> f] : f \in [Coords(w, h) -> Palette]}

Solid(w, h, c) == [w |-> w, h |-> h, px |-> [p \in Coords(w, h) |-> c]]

\* A page with colour on it: blue on the even diagonals, white elsewhere.
Pattern(w, h) ==
    [w |-> w, h |-> h,
     px |-> [p \in Coords(w, h) |-> IF (p[1] + p[2]) % 2 = 0 THEN Blue ELSE White]]

\* cv2.cvtColor(img, cv2.COLOR_BGR2GRAY), one pixel.
BGR2GRAY(c) == (c[1] * B2Y + c[2] * G2Y + c[3] * R2Y + (GrayShift \div 2)) \div GrayShift

cvtColor(img) ==
    [w |-> img.w, h |-> img.h,
     px |-> [p \in Coords(img.w, img.h) |-> BGR2GRAY(img.px[p])]]

\* Python's slice start:stop on an axis of length len: negative indices
\* count from the end, everything is clamped to 0 .. len.
PyIndex(i, len) == IF i < 0 THEN Max(i + len, 0) ELSE Min(i, len)

PySlice(start, stop, len) ==
    LET lo == PyIndex(start, len)
        hi == PyIndex(stop, len)
    IN  <<lo, Max(hi, lo)>>

\* gray[area[1]:area[1] + area[3], area[0]:area[0] + area[2]]
\* (area is <<x, y, w, h>>; TLA+ tuples count from 1).
Crop(gray, area) ==
    LET xs == PySlice(area[1], area[1] + area[3], gray.w)
        ys == PySlice(area[2], area[2] + area[4], gray.h)
        cw == xs[2] - xs[1]
        ch == ys[2] - ys[1]
    IN  [w |-> cw, h |-> ch,
         px |-> [p \in Coords(cw, ch) |-> gray.px[<<p[1] + xs[1], p[2] + ys[1]>>]]]

\* cv2.subtract on uint8 arrays of one size: the saturated src1 - src2.
subtractReversed(gray1, gray2) ==
    [w |-> gray1.w, h |-> gray1.h,
     px |-> [p \in Coords(gray1.w, gray1.h) |->
                IF gray2.px[p] > gray1.px[p] THEN gray2.px[p] - gray1.px[p] ELSE 0]]

subtract(gray1, gray2) ==
    [w |-> gray1.w, h |-> gray1.h,
     px |-> [p \in Coords(gray1.w, gray1.h) |->
                IF gray1.px[p] > gray2.px[p] THEN gray1.px[p] - gray2.px[p] ELSE 0]]

\* ------------------------------------------------------------ findContours
\* The non-zero pixels of diff.
Mask(diff) == {p \in Coords(diff.w, diff.h) : diff.px[p] # 0}

Adjacent8(p, q) == p # q /\ Abs(p[1] - q[1]) <= 1 /\ Abs(p[2] - q[2]) <= 1

Adjacent4(p, q) == Abs(p[1] - q[1]) + Abs(p[2] - q[2]) = 1

RECURSIVE Grow8(_, _)
Grow8(seen, mask) ==
    LET next == {q \in mask \ seen : \E p \in seen : Adjacent8(p, q)}
    IN  IF next = {} THEN seen ELSE Grow8(seen \cup next, mask)

\* The 8-connected components of the mask.
Components(mask) == {Grow8({p}, mask) : p \in mask}

RECURSIVE Grow4(_, _)
Grow4(seen, free) ==
    LET next == {q \in free \ seen : \E p \in seen : Adjacent4(p, q)}
    IN  IF next = {} THEN seen ELSE Grow4(seen \cup next, free)

\* The pixels a 4-connected path joins to the frame around the image
\* without crossing component c: what lies outside c's outer border.
Outside(c, w, h) ==
    Grow4({<<0 - 1, 0 - 1>>}, (((0 - 1) .. w) \X ((0 - 1) .. h)) \ c)

\* cv2.boundingRect of a contour: <<x, y, w, h>>.
boundingRect(c) ==
    LET x0 == CHOOSE x \in {p[1] : p \in c} : \A p \in c : x <= p[1]
        x1 == CHOOSE x \in {p[1] : p \in c} : \A p \in c : x >= p[1]
        y0 == CHOOSE y \in {p[2] : p \in c} : \A p \in c : y <= p[2]
        y1 == CHOOSE y \in {p[2] : p \in c} : \A p \in c : y >= p[2]
    IN  <<x0, y0, x1 - x0 + 1, y1 - y0 + 1>>

StrictlyInside(r, s) ==
    /\ s[1] < r[1] /\ r[1] + r[3] < s[1] + s[3]
    /\ s[2] < r[2] /\ r[2] + r[4] < s[2] + s[4]

\* d lies in a hole of c (which takes c's rectangle to surround d's).
Enclosed(d, c, w, h) ==
    /\ StrictlyInside(boundingRect(d), boundingRect(c))
    /\ d \cap Outside(c, w, h) = {}

\* Raster position of the first pixel of a component.
FirstPixel(c, w) ==
    CHOOSE i \in {p[2] * w + p[1] : p \in c} : \A p \in c : i <= p[2] * w + p[1]

RECURSIVE ContourSeq(_, _)
ContourSeq(cs, w) ==
    IF cs = {} THEN <<>>
    ELSE LET c == CHOOSE c \in cs : \A d \in cs : FirstPixel(d, w) <= FirstPixel(c, w)
         IN  <<c>> \o ContourSeq(cs \ {c}, w)

\* cv2.findContours(diff, cv2.RETR_EXTERNAL, cv2.CHAIN_APPROX_SIMPLE): one
\* contour per connected component that is in no hole of another one, the
\* component found last in the raster scan first.  A contour is kept as the
\* pixel set of its component, which has the same bounding rectangle.
findContours(diff) ==
    LET cs == Components(Mask(diff))
    IN  ContourSeq({d \in cs : \A c \in cs \ {d} : ~Enclosed(d, c, diff.w, diff.h)},
                   diff.w)

\* --------------------------------------------------------- groupRectangles
\* SimilarRects(eps) of OpenCV, with delta = eps * (min w + min h) / 2.
SimilarRects(eps, r1, r2) ==
    LET delta2 == eps * (Min(r1[3], r2[3]) + Min(r1[4], r2[4]))
    IN  /\ 2 * Abs(r1[1] - r2[1]) <= delta2
        /\ 2 * Abs(r1[2] - r2[2]) <= delta2
        /\ 2 * Abs(r1[1] + r1[3] - r2[1] - r2[3]) <= delta2
        /\ 2 * Abs(r1[2] + r1[4] - r2[2] - r2[4]) <= delta2

RECURSIVE GrowClass(_, _, _)
GrowClass(seen, rectList, eps) ==
    LET next == {j \in (1 .. Len(rectList)) \ seen :
                    \E i \in seen : SimilarRects(eps, rectList[i], rectList[j])}
    IN  IF next = {} THEN seen ELSE GrowClass(seen \cup next, rectList, eps)

RECURSIVE SumAt(_, _, _)
SumAt(is, rectList, k) ==
    IF is = {} THEN 0
    ELSE LET i == CHOOSE i \in is : TRUE
         IN  rectList[i][k] + SumAt(is \ {i}, rectList, k)

\* The rounded mean of a class of rectangles (coordinates are not negative).
MeanRect(is, rectList) ==
    LET n == Cardinality(is)
    IN  [k \in 1 .. 4 |-> (2 * SumAt(is, rectList, k) + n) \div (2 * n)]

RECURSIVE ClassSeq(_)
ClassSeq(cls) ==
    IF cls = {} THEN <<>>
    ELSE LET c == CHOOSE c \in cls :
                      \A d \in cls : \E i \in c : \A j \in d : i <= j
         IN  <<c>> \o ClassSeq(cls \ {c})

\* cv2.groupRectangles(rectList, groupThreshold, eps), the rectangle list it
\* returns.  OpenCV returns at once, leaving rectList as it is, when
\* groupThreshold <= 0 or the list is empty.  Otherwise it clusters similar
\* rectangles, drops every cluster of at most groupThreshold members and
\* every small cluster lying inside a heavier one, and returns the means.
groupRectangles(rectList, groupThreshold, eps) ==
    IF groupThreshold <= 0 \/ Len(rectList) = 0 THEN rectList
    ELSE LET classes == {GrowClass({i}, rectList, eps) : i \in 1 .. Len(rectList)}
             Inside(c1, c2) ==
                LET r1 == MeanRect(c1, rectList)
                    r2 == MeanRect(c2, rectList)
                    n1 == Cardinality(c1)
                    n2 == Cardinality(c2)
                    dx == r2[3] * eps
                    dy == r2[4] * eps
                IN  /\ r1[1] >= r2[1] - dx
                    /\ r1[2] >= r2[2] - dy
                    /\ r1[1] + r1[3] <= r2[1] + r2[3] + dx
                    /\ r1[2] + r1[4] <= r2[2] + r2[4] + dy
                    /\ (n2 > Max(3, n1) \/ n1 < 3)
             heavy == {c \in classes : Cardinality(c) > groupThreshold}
             kept == ClassSeq({c \in heavy : \A d \in heavy \ {c} : ~Inside(c, d)})
         IN  [i \in 1 .. Len(kept) |-> MeanRect(kept[i], rectList)]

\* --------------------------------------------------------- find_differences
Status_OK == "ok"
Status_Error == "cv2.error"

Failed == [status |-> Status_Error, boxes |-> <<>>, diff |-> NoValue]

\* find_differences(img1, img2, area): the set of its possible outcomes.  An
\* outcome records the returned list (boxes) and the local diff.  cv2.subtract
\* raises cv2.error on arrays of different sizes.  On an empty crop OpenCV
\* either raises or finds no contour, depending on the build.
find_differences(img1, img2, area) ==
    LET gray1 == IF area # NoArea THEN Crop(cvtColor(img1), area) ELSE cvtColor(img1)
        gray2 == IF area # NoArea THEN Crop(cvtColor(img2), area) ELSE cvtColor(img2)
    IN  IF gray1.w # gray2.w \/ gray1.h # gray2.h THEN {Failed}
        ELSE IF gray1.w = 0 \/ gray1.h = 0
             THEN {Failed, [status |-> Status_OK, boxes |-> <<>>, diff |-> NoValue]}
        ELSE LET diff == subtract(gray1, gray2)
                 contours == findContours(diff)
                 boundingBoxes == [i \in 1 .. Len(contours) |-> boundingRect(contours[i])]
                 groupedBoundingBoxes == groupRectangles(boundingBoxes, 0, 1)
             IN  {[status |-> Status_OK,
                   boxes |-> IF area # NoArea
                             THEN [i \in 1 .. Len(groupedBoundingBoxes) |->
                                     <<groupedBoundingBoxes[i][1] + area[1],
                                       groupedBoundingBoxes[i][2] + area[2],
                                       groupedBoundingBoxes[i][3],
                                       groupedBoundingBoxes[i][4]>>]
                             ELSE groupedBoundingBoxes,
                   diff |-> diff]}

\* --------------------------------------------------------- draw_differences
\* draw_differences(img, diffs): the RGBA image PIL returns, kept as the base
\* pixels turned to <<r, g, b>> and the set of pixels under the translucent
\* green overlay.  ImageDraw.rectangle fills both corners inclusively and
\* clips to the image.
draw_differences(img, diffs) ==
    [mode |-> "RGBA", w |-> img.w, h |-> img.h,
     px |-> [p \in Coords(img.w, img.h) |-> <<img.px[p][3], img.px[p][2], img.px[p][1]>>],
     overlay |-> {p \in Coords(img.w, img.h) :
                    \E i \in 1 .. Len(diffs) :
                        /\ diffs[i][1] - Padding <= p[1]
                        /\ p[1] <= diffs[i][1] + diffs[i][3] + Padding
                        /\ diffs[i][2] - Padding <= p[2]
                        /\ p[2] <= diffs[i][2] + diffs[i][4] + Padding}]

\* ------------------------------------------------------------------- state
VARIABLES
    pc,           \* monitor_url_for_changes: the statement about to run
    img1,         \* local img1, the baseline
    img2,         \* local img2
    differences,  \* local differences
    exc,          \* the exception in flight, or None
    tickError,    \* the first exception raised in the try body, or None
    logged,       \* the except clause has printed a traceback
    quitCalled,   \* self.driver.quit() has been called
    artifact,     \* content of differences.png
    viewerOpened, \* subprocess.run(['open', ...]) has completed
    captured,     \* outcome of every url_to_img call so far
    comparisons,  \* every completed find_differences call of the loop
    fd_pc,        \* find_differences on its own: "call" or "done"
    fd_img1,      \* its argument img1
    fd_img2,      \* its argument img2
    fd_area,      \* its argument area
    fd_out        \* its outcome

monVars == <<pc, img1, img2, differences, exc, tickError, logged, quitCalled,
             artifact, viewerOpened, captured, comparisons>>
fdVars == <<fd_pc, fd_img1, fd_img2, fd_area, fd_out>>
vars == <<pc, img1, img2, differences, exc, tickError, logged, quitCalled,
          artifact, viewerOpened, captured, comparisons,
          fd_pc, fd_img1, fd_img2, fd_area, fd_out>>

\* A local that is not assigned; differences.png missing; differences.png
\* cut short.
Unbound == [unbound |-> TRUE]
Absent == [file |-> "absent"]
Truncated == [file |-> "truncated"]

CaptureError == "CaptureError (WebDriverException)"
KeyboardInterrupt == "KeyboardInterrupt"
UnboundLocalError == "UnboundLocalError"
ValueError == "ValueError"
RenderError == "MemoryError"
SaveError == "OSError"
ViewerError == "CalledProcessError"
QuitError == "WebDriverException in quit"

\* What url_to_img can return: the page at full height or one row shorter
\* (full_page sizes the window to document.body.scrollHeight).
Captures == Images(CapW, CapH) \cup Images(CapW, CapH - 1)

\* What url_to_img can raise: a browser failure, or the operator's Ctrl-C
\* while the call blocks.
CaptureFailures == {CaptureError, KeyboardInterrupt}

\* State after WebpageMonitor() and on entry to monitor_url_for_changes.
MonInit ==
    /\ pc = "initial_capture"
    /\ img1 = Unbound
    /\ img2 = Unbound
    /\ differences = Unbound
    /\ exc = None
    /\ tickError = None
    /\ logged = FALSE
    /\ quitCalled = FALSE
    /\ artifact = Absent
    /\ viewerOpened = FALSE
    /\ captured = <<>>
    /\ comparisons = <<>>

FdIdle ==
    /\ fd_pc = "idle"
    /\ fd_img1 = NoValue
    /\ fd_img2 = NoValue
    /\ fd_area = NoArea
    /\ fd_out = NoValue

Init == MonInit /\ FdIdle

\* An exception e leaves the try body: to the except clause when it is an
\* Exception, straight to the finally clause when it is KeyboardInterrupt.
RaiseInTry(e) ==
    /\ exc' = e
    /\ tickError' = e
    /\ pc' = IF e = KeyboardInterrupt THEN "finally_del" ELSE "except"

\* line 132: img1 = self.url_to_img(url), outside the try.
InitialCapture ==
    /\ pc = "initial_capture"
    /\ \/ \E img \in Captures :
            /\ img1' = img
            /\ captured' = Append(captured, img)
            /\ pc' = "tick_capture"
            /\ exc' = exc
       \/ \E e \in CaptureFailures :
            /\ captured' = Append(captured, [raised |-> e])
            /\ exc' = e
            /\ pc' = "raised"
            /\ img1' = img1
    /\ UNCHANGED <<img2, differences, tickError, logged, quitCalled, artifact,
                   viewerOpened, comparisons, fdVars>>

\* line 137: img2 = self.url_to_img(url).
TickCapture ==
    /\ pc = "tick_capture"
    /\ \/ \E img \in Captures :
            /\ img2' = img
            /\ captured' = Append(captured, img)
            /\ pc' = "detect"
            /\ UNCHANGED <<exc, tickError>>
       \/ \E e \in CaptureFailures :
            /\ captured' = Append(captured, [raised |-> e])
            /\ RaiseInTry(e)
            /\ img2' = img2
    /\ UNCHANGED <<img1, differences, logged, quitCalled, artifact,
                   viewerOpened, comparisons, fdVars>>

\* line 140: differences = self.find_differences(img1, img2).
Detect ==
    /\ pc = "detect"
    /\ \E out \in find_differences(img1, img2, NoArea) :
         IF out.status = Status_OK
         THEN /\ differences' = out.boxes
              /\ comparisons' = Append(comparisons,
                                       [baseline |-> img1, new |-> img2, boxes |-> out.boxes])
              /\ pc' = "test"
              /\ UNCHANGED <<exc, tickError>>
         ELSE /\ RaiseInTry(out.status)
              /\ UNCHANGED <<differences, comparisons>>
    /\ UNCHANGED <<img1, img2, logged, quitCalled, artifact, viewerOpened,
                   captured, fdVars>>

\* line 143: if any(differences).  any(()) is False.  On a non-empty result
\* any() tests the truth of each row: True when cv2 hands the rectangles back
\* as the tuples they went in as, ValueError when it hands back an N x 4
\* numpy array, whose rows have no truth value.
TestDifferences ==
    /\ pc = "test"
    /\ \/ /\ Len(differences) = 0
          /\ pc' = "promote"
          /\ UNCHANGED <<exc, tickError>>
       \/ /\ Len(differences) > 0
          /\ pc' = "draw"
          /\ UNCHANGED <<exc, tickError>>
       \/ /\ Len(differences) > 0
          /\ RaiseInTry(ValueError)
    /\ UNCHANGED <<img1, img2, differences, logged, quitCalled, artifact,
                   viewerOpened, captured, comparisons, fdVars>>

\* line 144: img2 = self.draw_differences(img2, differences).
Draw ==
    /\ pc = "draw"
    /\ \/ /\ img2' = draw_differences(img2, differences)
          /\ pc' = "save"
          /\ UNCHANGED <<exc, tickError>>
       \/ /\ RaiseInTry(RenderError)
          /\ img2' = img2
    /\ UNCHANGED <<img1, differences, logged, quitCalled, artifact,
                   viewerOpened, captured, comparisons, fdVars>>

\* line 147: img2.save('differences.png').  A failed save leaves the file as
\* it was (it could not be opened) or cut short (the write broke off).
Save ==
    /\ pc = "save"
    /\ \/ /\ artifact' = img2
          /\ pc' = "open"
          /\ UNCHANGED <<exc, tickError>>
       \/ /\ RaiseInTry(SaveError)
          /\ artifact' \in {artifact, Truncated}
    /\ UNCHANGED <<img1, img2, differences, logged, quitCalled,
                   viewerOpened, captured, comparisons, fdVars>>

\* line 150: subprocess.run(['open', 'differences.png'], check=True).
OpenViewer ==
    /\ pc = "open"
    /\ \/ /\ viewerOpened' = TRUE
          /\ pc' = "promote"
          /\ UNCHANGED <<exc, tickError>>
       \/ /\ \E e \in {ViewerError, KeyboardInterrupt} : RaiseInTry(e)
          /\ viewerOpened' = viewerOpened
    /\ UNCHANGED <<img1, img2, differences, logged, quitCalled, artifact,
                   captured, comparisons, fdVars>>

\* line 153: img1 = img2.copy().
PromoteBaseline ==
    /\ pc = "promote"
    /\ img1' = img2
    /\ pc' = "sleep"
    /\ UNCHANGED <<img2, differences, exc, tickError, logged, quitCalled,
                   artifact, viewerOpened, captured, comparisons, fdVars>>

\* line 156: time.sleep(interval), which Ctrl-C interrupts.
Sleep ==
    /\ pc = "sleep"
    /\ \/ /\ pc' = "finally_del"
          /\ UNCHANGED <<exc, tickError>>
       \/ RaiseInTry(KeyboardInterrupt)
    /\ UNCHANGED <<img1, img2, differences, logged, quitCalled, artifact,
                   viewerOpened, captured, comparisons, fdVars>>

\* lines 158-160: except Exception: print the traceback.
Except ==
    /\ pc = "except"
    /\ logged' = TRUE
    /\ exc' = None
    /\ pc' = "finally_del"
    /\ UNCHANGED <<img1, img2, differences, tickError, quitCalled, artifact,
                   viewerOpened, captured, comparisons, fdVars>>

\* line 163: del img2, which raises UnboundLocalError when img2 was never
\* assigned; the exception leaves the finally clause and the function.
FinallyDel ==
    /\ pc = "finally_del"
    /\ IF img2 = Unbound
       THEN /\ exc' = UnboundLocalError
            /\ pc' = "raised"
            /\ img2' = img2
       ELSE /\ img2' = Unbound
            /\ pc' = "quit"
            /\ exc' = exc
    /\ UNCHANGED <<img1, differences, tickError, logged, quitCalled, artifact,
                   viewerOpened, captured, comparisons, fdVars>>

\* line 164: self.driver.quit().
Quit ==
    /\ pc = "quit"
    /\ quitCalled' = TRUE
    /\ \/ /\ pc' = "break"
          /\ exc' = exc
       \/ /\ pc' = "raised"
          /\ exc' = QuitError
    /\ UNCHANGED <<img1, img2, differences, tickError, logged, artifact,
                   viewerOpened, captured, comparisons, fdVars>>

\* line 165: break, in the finally clause: leaves the while loop and drops
\* the exception in flight; the function returns.
Break ==
    /\ pc = "break"
    /\ exc' = None
    /\ pc' = "returned"
    /\ UNCHANGED <<img1, img2, differences, tickError, logged, quitCalled,
                   artifact, viewerOpened, captured, comparisons, fdVars>>

Next ==
    \/ InitialCapture
    \/ TickCapture
    \/ Detect
    \/ TestDifferences
    \/ Draw
    \/ Save
    \/ OpenViewer
    \/ PromoteBaseline
    \/ Sleep
    \/ Except
    \/ FinallyDel
    \/ Quit
    \/ Break

Spec == Init /\ [][Next]_vars

\* ------------------------------------------- find_differences on its own
\* Baselines and captures find_differences is called on: every black and
\* white page against a white page, a coloured page and a page one row
\* shorter, in both argument orders.
FewImages == {Solid(W, H, White), Pattern(W, H), Solid(W, H - 1, White)}

FdImagePairs ==
    (Images(W, H) \X FewImages) \cup (FewImages \X Images(W, H))

\* The area arguments: none, the whole image, rectangles inside it,
\* rectangles past the right and the bottom edge, one starting left of the
\* image.
FdAreas ==
    {NoArea,
     <<0, 0, W, H>>,
     <<1, 1, W - 1, H - 1>>,
     <<0, 0, W, H - 1>>,
     <<1, 0, W, H>>,
     <<0, 1, W, H>>,
     <<0 - 2, 0, 1, H>>}

FdInit ==
    /\ MonInit
    /\ fd_pc = "call"
    /\ \E pair \in FdImagePairs : fd_img1 = pair[1] /\ fd_img2 = pair[2]
    /\ fd_area \in FdAreas
    /\ fd_out = NoValue

\* A call find_differences(fd_img1, fd_img2, fd_area) that returns.
FindDifferencesReturns ==
    /\ fd_pc = "call"
    /\ \E out \in find_differences(fd_img1, fd_img2, fd_area) :
         /\ out.status = Status_OK
         /\ fd_out' = out
    /\ fd_pc' = "done"
    /\ UNCHANGED <<fd_img1, fd_img2, fd_area, monVars>>

\* A call find_differences(fd_img1, fd_img2, fd_area) that raises.
FindDifferencesRaises ==
    /\ fd_pc = "call"
    /\ \E out \in find_differences(fd_img1, fd_img2, fd_area) :
         /\ out.status # Status_OK
         /\ fd_out' = out
    /\ fd_pc' = "done"
    /\ UNCHANGED <<fd_img1, fd_img2, fd_area, monVars>>

FdNext == FindDifferencesReturns \/ FindDifferencesRaises

SpecFD == FdInit /\ [][FdNext]_vars

\* ------------------------------------------------------------------ claims
IsImage(v) == "px" \in DOMAIN v

Terminated == pc \in {"returned", "raised"}

\* The one tick of the loop has run to the finally clause or further.
TickOver ==
    \/ pc \in {"finally_del", "quit", "break", "returned"}
    \/ pc = "raised" /\ Len(captured) >= 2

Comparable(a, b) == a.w = b.w /\ a.h = b.h

Overlap(r, s) ==
    /\ r[1] < s[1] + s[3] /\ s[1] < r[1] + r[3]
    /\ r[2] < s[2] + s[4] /\ s[2] < r[2] + r[4]

InBox(p, r) ==
    /\ r[1] <= p[1] /\ p[1] < r[1] + r[3]
    /\ r[2] <= p[2] /\ p[2] < r[2] + r[4]

RoiWithin(area, img) ==
    /\ 0 <= area[1] /\ 0 <= area[2]
    /\ area[1] + area[3] <= img.w
    /\ area[2] + area[4] <= img.h

FdReturned == fd_pc = "done" /\ fd_out.status = Status_OK

\* C1: whenever monitor_url_for_changes has returned or raised,
\* self.driver.quit() has been called.
C1_QuitOnEveryExit == Terminated => quitCalled

\* C2: an Exception raised inside the tick is logged and does not leave
\* monitor_url_for_changes; only a failure of driver.quit() may.
C2_TickErrorsContained ==
    (tickError # None /\ tickError # KeyboardInterrupt) =>
        /\ TickOver => logged
        /\ pc = "raised" => exc = QuitError

\* C3: the loop ends only on cancellation, on a capture that failed or on a
\* failed teardown; a tick that completed, with or without differences or a
\* caught error, is followed by another tick.
C3_EndsOnlyOnCancelOrCaptureFailure ==
    Terminated =>
        \/ tickError = KeyboardInterrupt
        \/ exc = QuitError
        \/ \E i \in 1 .. Len(captured) : ~IsImage(captured[i])

\* C4: when the provider's second call fails and its first succeeds, the
\* finished run has made a third call and compared that capture against the
\* first call's capture as baseline.
C4_FailedCallKeepsBaseline ==
    (/\ Terminated
     /\ Len(captured) >= 2
     /\ IsImage(captured[1])
     /\ captured[2] = [raised |-> CaptureError]) =>
        /\ Len(captured) >= 3
        /\ \E i \in 1 .. Len(comparisons) :
              /\ comparisons[i].baseline = captured[1]
              /\ comparisons[i].new = captured[3]

\* C5: after the tick, differences.png holds the annotated capture exactly
\* when the tick's detection returned a non-empty list, and is untouched
\* otherwise.
C5_ArtifactIffDifferences ==
    TickOver =>
        IF Len(comparisons) > 0 /\ Len(comparisons[1].boxes) > 0
        THEN artifact = draw_differences(comparisons[1].new, comparisons[1].boxes)
        ELSE artifact = Absent

\* C9: after a tick whose capture and detection succeeded, the baseline img1
\* is the raw capture of that tick.
C9_BaselineIsNewCapture ==
    (TickOver /\ Len(comparisons) > 0) => img1 = comparisons[1].new

\* C6: on comparable images no two boxes find_differences returns share a
\* pixel.
C6_BoxesPairwiseDisjoint ==
    (FdReturned /\ Comparable(fd_img1, fd_img2)) =>
        \A i, j \in 1 .. Len(fd_out.boxes) :
            i < j => ~Overlap(fd_out.boxes[i], fd_out.boxes[j])

\* C7: on comparable images and with an area given, every box
\* find_differences returns lies inside the image.
C7_BoxesWithinImage ==
    (FdReturned /\ Comparable(fd_img1, fd_img2) /\ fd_area # NoArea) =>
        \A i \in 1 .. Len(fd_out.boxes) :
            LET b == fd_out.boxes[i]
            IN  /\ 0 <= b[1]
                /\ 0 <= b[2]
                /\ b[1] + b[3] <= fd_img1.w
                /\ b[2] + b[4] <= fd_img1.h

\* C8: find_differences with an area that is not within both images raises
\* instead of returning.
C8_OutOfBoundsAreaRejected ==
    (/\ fd_pc = "done"
     /\ fd_area # NoArea
     /\ ~(RoiWithin(fd_area, fd_img1) /\ RoiWithin(fd_area, fd_img2))) =>
        fd_out.status # Status_OK

\* C10 as claimed: find_differences(imageA, imageB) flags pixel p exactly when
\* imageB is brighter there, diff[p] = max(0, intensityB[p] - intensityA[p]).
C10_FlagsIncrease ==
    (FdReturned /\ fd_area = NoArea) =>
        \A p \in Coords(fd_img1.w, fd_img1.h) :
            fd_out.diff.px[p] =
                Max(0, BGR2GRAY(fd_img2.px[p]) - BGR2GRAY(fd_img1.px[p]))

\* Pixel p is darker in the second argument than in the first.
Darker(p) == BGR2GRAY(fd_img1.px[p]) > BGR2GRAY(fd_img2.px[p])

\* C10 as amended: find_differences(imageA, imageB) flags pixel p exactly
\* when imageA is brighter there, diff[p] = max(0, intensityA[p] -
\* intensityB[p]); every such pixel lies in a returned box, and every
\* returned box has such a pixel on each of its four sides.
C10_FlagsDecrease ==
    (FdReturned /\ fd_area = NoArea) =>
        /\ \A p \in Coords(fd_img1.w, fd_img1.h) :
              /\ fd_out.diff.px[p] =
                    Max(0, BGR2GRAY(fd_img1.px[p]) - BGR2GRAY(fd_img2.px[p]))
              /\ Darker(p) => \E i \in 1 .. Len(fd_out.boxes) : InBox(p, fd_out.boxes[i])
        /\ \A i \in 1 .. Len(fd_out.boxes) :
              LET b == fd_out.boxes[i]
                  in == {p \in Coords(fd_img1.w, fd_img1.h) : InBox(p, b) /\ Darker(p)}
              IN  /\ \E p \in in : p[1] = b[1]
                  /\ \E p \in in : p[1] = b[1] + b[3] - 1
                  /\ \E p \in in : p[2] = b[2]
                  /\ \E p \in in : p[2] = b[2] + b[4] - 1

\* A call that returned, on images with a pixel that got darker (flagged) and
\* a pixel that got brighter (not flagged).
C10_Witness ==
    /\ FdReturned
    /\ fd_area = NoArea
    /\ \E p, q \in Coords(fd_img1.w, fd_img1.h) :
          /\ Darker(p)
          /\ fd_out.diff.px[p] > 0
          /\ BGR2GRAY(fd_img2.px[q]) > BGR2GRAY(fd_img1.px[q])
          /\ fd_out.diff.px[q] = 0
          /\ Len(fd_out.boxes) > 0
====
